---- MODULE Spec2Model ----
(***************************************************************************)
(* A model of the portfolio-tracker caching layer:                         *)
(*   - rate_limiter.py    the sliding-window rate_limited decorator        *)
(*   - cache_manager.py   CacheManager (freshness check, load, save, ...)  *)
(*   - market_holidays.py the holiday rule sets behind the freshness check *)
(*   - cache_decorator.py the get-or-fetch wrapper                         *)
(* Time of the limiter is in whole seconds (time.time()).                  *)
(***************************************************************************)
EXTENDS Integers, Sequences, FiniteSets, TLC

\* ------------------------------------------------------------------ bounds
\* Largest max_requests_per_minute a limiter is constructed with.
MaxLimit == 2
\* Calls each caller issues through the wrapper.
MaxCalls == 4
\* Horizon of the wall clock, in seconds.
MaxTime == 130
\* Seconds by which the wall clock advances in one Tick.
Quantum == 10
\* Calls each of the concurrent callers issues.
ConcCalls == 2
\* The clock of the concurrent callers ticks up to here; sleeps go beyond.
ConcHorizon == 20
\* Ticks of the clock between the ten rapid calls of the test, sleeps aside.
MaxDrift == 3

\* Instants of a day a datetime can stand for (the first is midnight).
TicksPerDay == 2
\* Days the freshness checks run on, from Wednesday 2024-07-03 onwards.
WindowDays == 4
\* Rows of a cached table.
MaxRows == 2
\* Days get_latest_trading_day is asked about, from Saturday 2023-12-23 on.
CalDays == 14
\* Files the archive directory may come to hold.
MaxArchived == 2
\* Calls of the decorated function by each of the concurrent callers.
ConcFetches == 1
\* Years the holiday rules are resolved for, from 2018 on.
RuleYears == 12
\* Calls of the rate-limited fetch behind the cache decorator, and the
\* seconds of clock time they are followed over.
FetchCalls == 2
FetchHorizon == 70

\* rate_limiter.py:16   interval = 60.0
interval == 60

Threads == {1, 2}

VARIABLES
    clock,                    \* time.time(), the wall clock in seconds
    decorated,                \* rate_limited(max)(func) has been applied
    max_requests_per_minute,  \* the argument of rate_limited
    call_timestamps,          \* the closure's list of recent call times
    history,                  \* every timestamp ever appended (line 34), in order
    func_calls,               \* number of times the protected func was invoked
    pc,                       \* per caller: position inside wrapper
    now,                      \* per caller: the local `now`
    sleep_time,               \* per caller: the local `sleep_time`
    wake_at,                  \* per caller: earliest instant time.sleep returns
    pruned,                   \* per caller: the new list of line 25 / 33, not yet bound
    call,                     \* per caller: facts about the current / last call
    script,                   \* position in the __main__ test of rate_limiter.py
    start_time,               \* its start_time
    end_time,                 \* its end_time
    results,                  \* its results list
    drift,                    \* ticks of the clock seen by the test outside sleeps
    today,                    \* datetime.today() / datetime.now()
    cache,                    \* CacheManager.cache: key -> stored value (None: no entry)
    last,                     \* the latest CacheManager / decorator call and its result
    archive,                  \* the archive directory: file name -> what was written
    caller,                   \* per concurrent caller of the decorated function:
                              \* its position in wrapper and its locals
    saves                     \* the save_to_cache calls of those callers that have
                              \* returned, in order of completion

rlVars == << clock, decorated, max_requests_per_minute, call_timestamps, history,
             func_calls, pc, now, sleep_time, wake_at, pruned, call >>

scriptVars == << script, start_time, end_time, results, drift >>

cacheVars == << today, cache, last, archive, caller, saves >>

sharedVars == << caller, saves >>

vars == << rlVars, scriptVars, cacheVars >>

\* ------------------------------------------------------ dates and times
\* A datetime is a whole number of ticks since 1970-01-01 00:00, TicksPerDay
\* ticks to the day; tick 0 of a day is midnight.  A date is a day number.
DayOf(ts) == ts \div TicksPerDay
IsMidnight(ts) == ts % TicksPerDay = 0
Midnight(d) == d * TicksPerDay
MinusDays(ts, n) == ts - n * TicksPerDay

\* datetime.weekday(): Monday is 0, Sunday is 6 (1970-01-01 was a Thursday).
DayWeekday(d) == (d + 3) % 7
Weekday(ts) == DayWeekday(DayOf(ts))

\* datetime(y, m, d) as a day number (proleptic Gregorian calendar).
DaysFromCivil(y, m, d) ==
    LET yy  == IF m <= 2 THEN y - 1 ELSE y
        era == yy \div 400
        yoe == yy - era * 400
        mp  == IF m > 2 THEN m - 3 ELSE m + 9
        doy == (153 * mp + 2) \div 5 + d - 1
        doe == yoe * 365 + yoe \div 4 - yoe \div 100 + doy
    IN  era * 146097 + doe - 719468

\* The year, month and day of a day number.
CivilFromDays(z) ==
    LET zz  == z + 719468
        era == zz \div 146097
        doe == zz - era * 146097
        yoe == (doe - doe \div 1460 + doe \div 36524 - doe \div 146096) \div 365
        doy == doe - (365 * yoe + yoe \div 4 - yoe \div 100)
        mp  == (5 * doy + 2) \div 153
        d   == doy - (153 * mp + 2) \div 5 + 1
        m   == IF mp < 10 THEN mp + 3 ELSE mp - 9
        y   == yoe + era * 400 + (IF m <= 2 THEN 1 ELSE 0)
    IN  [year |-> y, month |-> m, day |-> d]

YearOf(ts) == CivilFromDays(DayOf(ts)).year

IsLeap(y) == (y % 4 = 0 /\ y % 100 # 0) \/ y % 400 = 0

\* ts - pd.DateOffset(years=1): the same month, day and time a year before
\* (29 February becomes 28 February).
MinusOneYear(ts) ==
    LET c == CivilFromDays(DayOf(ts))
        d == IF c.month = 2 /\ c.day = 29 /\ ~IsLeap(c.year - 1) THEN 28 ELSE c.day
    IN  Midnight(DaysFromCivil(c.year - 1, c.month, d)) + (ts % TicksPerDay)

\* ---------------------------------------------------- market_holidays.py
\* observance=nearest_workday: Saturday moves to Friday, Sunday to Monday.
NearestWorkday(d) ==
    IF DayWeekday(d) = 5 THEN d - 1
    ELSE IF DayWeekday(d) = 6 THEN d + 1 ELSE d

\* d + DateOffset(weekday=k): the first day on or after d whose weekday is k.
OnOrAfterWeekday(d, k) == d + ((k - DayWeekday(d) + 7) % 7)

\* dateutil.easter.easter(y): Easter Sunday of year y (western method).
EasterSunday(y) ==
    LET g == y % 19
        c == y \div 100
        h == (c - c \div 4 - (8 * c + 13) \div 25 + 19 * g + 15) % 30
        i == h - (h \div 28) * (1 - (h \div 28) * (29 \div (h + 1)) * ((21 - g) \div 11))
        j == (y + y \div 4 + i + 2 - c + c \div 4) % 7
        p == i - j
        d == 1 + ((p + 27 + (p + 6) \div 40) % 31)
        m == 3 + (p + 26) \div 30
    IN  DaysFromCivil(y, m, d)

\* 1 January of year y + Easter(-2): 1 January is never after the Easter of
\* its year, so the offset steps to the Easter Sunday of year y - 2.
NewYearPlusEasterMinus2(y) == EasterSunday(y - 2)

\* lines 11-13: 1 November + DateOffset(weekday=4, weeks=3).
fourth_friday_november(y) == OnOrAfterWeekday(DaysFromCivil(y, 11, 1) + 21, 4)

\* The date a rule yields for reference year y.
RuleDate(rule, y) ==
    LET base == DaysFromCivil(y, rule.month, rule.day)
    IN  CASE rule.kind = "nearest_workday" -> NearestWorkday(base)
          [] rule.kind = "weekday"         -> OnOrAfterWeekday(base, rule.weekday)
          [] rule.kind = "easter_minus_2"  -> NewYearPlusEasterMinus2(y)
          [] rule.kind = "fourth_friday"   -> fourth_friday_november(y)
          [] rule.kind = "days"            -> base + rule.weekday

HolidayRule(name, month, day, kind, weekday) ==
    [name |-> name, month |-> month, day |-> day, kind |-> kind, weekday |-> weekday]

\* lines 15-27
USMarketHolidayCalendar == {
    HolidayRule("New Year's Day", 1, 1, "nearest_workday", 0),
    HolidayRule("Martin Luther King Jr. Day", 1, 1, "weekday", 2),
    HolidayRule("Washington's Birthday", 2, 1, "weekday", 2),
    HolidayRule("Good Friday", 1, 1, "easter_minus_2", 0),
    HolidayRule("Memorial Day", 5, 31, "weekday", 0),
    HolidayRule("Independence Day", 7, 4, "nearest_workday", 0),
    HolidayRule("Labor Day", 9, 1, "weekday", 0),
    HolidayRule("Thanksgiving", 11, 1, "weekday", 3),
    HolidayRule("Day after Thanksgiving", 11, 1, "fourth_friday", 0),
    HolidayRule("Christmas", 12, 25, "nearest_workday", 0) }

\* AbstractHolidayCalendar.holidays(start, end): every rule is evaluated for
\* the years start.year - 1 .. end.year + 1 and the dates (at midnight) that
\* lie in [start, end] are kept.
Holidays(rules, start, end) ==
    { h \in { Midnight(RuleDate(r, y)) :
                  r \in rules, y \in (YearOf(start) - 1) .. (YearOf(end) + 1) } :
        start <= h /\ h <= end }

\* lines 30-37
JapanMarketHolidayCalendar == {
    HolidayRule("New Year's Holiday", 1, 1, "days", 0),
    HolidayRule("Respect for the Aged Day", 9, 1, "weekday", 0) }

\* lines 40-48
UKMarketHolidayCalendar == {
    HolidayRule("New Year's Day", 1, 1, "nearest_workday", 0),
    HolidayRule("Good Friday", 1, 1, "easter_minus_2", 0),
    HolidayRule("Early May Bank Holiday", 5, 1, "weekday", 0),
    HolidayRule("Spring Bank Holiday", 5, 31, "weekday", 0),
    HolidayRule("Christmas", 12, 25, "nearest_workday", 0),
    HolidayRule("Boxing Day", 12, 26, "nearest_workday", 0) }

\* lines 50-55: the keys of the table.
RegisteredMarkets == {"US", "Japan", "UK"}

\* Mutant of market_holiday_calendars: a market that is not in the table
\* gets a calendar without any holiday.
CalendarOrNothing(market) ==
    CASE market = "US"    -> USMarketHolidayCalendar
      [] market = "Japan" -> JapanMarketHolidayCalendar
      [] market = "UK"    -> UKMarketHolidayCalendar
      [] OTHER            -> {}

\* lines 50-55, read with .get(market, market_holiday_calendars["US"])
market_holiday_calendars(market) ==
    CASE market = "US"    -> USMarketHolidayCalendar
      [] market = "Japan" -> JapanMarketHolidayCalendar
      [] market = "UK"    -> UKMarketHolidayCalendar
      [] OTHER            -> USMarketHolidayCalendar

\* ------------------------------------- cache_manager.py: the trading day
\* Mutant of RollBack: only holidays are stepped over.
RECURSIVE RollBackHolidaysOnly(_, _)
RollBackHolidaysOnly(potential_trading_day, holidays) ==
    IF potential_trading_day \in holidays
    THEN RollBackHolidaysOnly(MinusDays(potential_trading_day, 1), holidays)
    ELSE potential_trading_day

\* lines 118-119: while the datetime is an element of the holiday index (an
\* exact match of date and time of day) or falls on a weekend, go back a day.
RECURSIVE RollBack(_, _)
RollBack(potential_trading_day, holidays) ==
    IF potential_trading_day \in holidays \/ Weekday(potential_trading_day) >= 5
    THEN RollBack(MinusDays(potential_trading_day, 1), holidays)
    ELSE potential_trading_day

\* lines 108-121, with datetime.today() = today
get_latest_trading_day(market, today_) ==
    LET calendar == market_holiday_calendars(market)
        potential_trading_day ==
            IF Weekday(today_) < 5 THEN today_
            ELSE MinusDays(today_, Weekday(today_) - 4)
        holidays == Holidays(calendar, MinusOneYear(potential_trading_day),
                             potential_trading_day)
    IN  RollBack(potential_trading_day, holidays)

\* ------------------------------------------- cache_manager.py: the store
Keys == {"AAPL_TIME_SERIES_DAILY", "MSFT_TIME_SERIES_DAILY"}

\* Python's None: what cache.get returns for a key without entry.
None == [kind |-> "None"]
\* A stored value that is not a pandas DataFrame (a dict, a list, ...).
NotAFrame == [kind |-> "other"]
\* A DataFrame: whether it has a 'date' column, the values of that column,
\* and the values of the index, one per row.
Frame(has_date, date, index) ==
    [kind |-> "frame", has_date |-> has_date, date |-> date, index |-> index]

\* Values of a date column or index before parsing: a datetime, a date
\* string "YYYY-MM-DD", or something that is no date.
DatetimeCell(ts) == [form |-> "datetime", at |-> ts]
StringCell(day) == [form |-> "string", at |-> day]
JunkCell == [form |-> "junk", at |-> 0]

\* The default RangeIndex of n rows: the integers 0 .. n-1, which
\* pd.to_datetime reads as nanoseconds after 1970-01-01 00:00.
RangeIndex(n) == [i \in 1 .. n |-> DatetimeCell(0)]

FirstDay == DaysFromCivil(2024, 7, 3)
Todays == Midnight(FirstDay) .. (Midnight(FirstDay + WindowDays) - 1)

CellValues == { JunkCell,
                DatetimeCell(Midnight(FirstDay) + 1),
                StringCell(FirstDay + 2) }

CellSeqs == UNION { [1 .. n -> CellValues] : n \in 0 .. MaxRows }

\* The values a caller may save or a fetch may return: something that is
\* no table, tables indexed by date, and tables of one row with a 'date'
\* column and the default index.
Payloads ==
    {NotAFrame}
    \cup { Frame(FALSE, << >>, ix) : ix \in CellSeqs }
    \cup { Frame(TRUE, col, RangeIndex(1)) : col \in [1 .. 1 -> CellValues] }

\* Those of at most one row, enough to tell two entries apart.
SmallPayloads == { p \in Payloads : p.kind # "frame" \/ Len(p.index) <= 1 }

\* DataFrame.empty
IsEmpty(df) == Len(df.index) = 0

\* pd.NaT and a pd.Timestamp
NaT == [nat |-> TRUE, at |-> 0]
Timestamp(ts) == [nat |-> FALSE, at |-> ts]

\* pd.to_datetime(values, errors='coerce'): a datetime is kept, a date string
\* becomes midnight of its day, anything else becomes NaT.
to_datetime(cells) ==
    [i \in DOMAIN cells |->
        CASE cells[i].form = "datetime" -> Timestamp(cells[i].at)
          [] cells[i].form = "string"   -> Timestamp(Midnight(cells[i].at))
          [] OTHER                      -> NaT]

\* .max() of parsed values: NaT is skipped; NaT when nothing else is there.
SeriesMax(parsed) ==
    LET valid == { i \in DOMAIN parsed : ~parsed[i].nat }
    IN  IF valid = {} THEN NaT
        ELSE LET top == CHOOSE i \in valid :
                            \A j \in valid : parsed[j].at <= parsed[i].at
             IN  Timestamp(parsed[top].at)

\* lines 32-37: the date column when there is one, else the index.
MaxCachedDate(df) ==
    IF df.has_date THEN SeriesMax(to_datetime(df.date))
    ELSE SeriesMax(to_datetime(df.index))

\* Outcomes of one access to the diskcache store: it works, it times out
\* (FanoutCache answers a timeout with the default None / with False and
\* raises nothing), or it raises (I/O error, undecodable payload).
StoreOutcomes == {"ok", "timeout", "error"}

Returned(v) == [exc |-> FALSE, value |-> v]
Raised == [exc |-> TRUE, value |-> None]

\* Mutant of load_cached_data: an empty table is handed out as well.
LoadEmptyTable(store, cache_key, get) ==
    IF get = "error" THEN Raised
    ELSE LET cached_data == IF get = "timeout" THEN None ELSE store[cache_key]
         IN  IF cached_data.kind = "frame" THEN Returned(cached_data)
             ELSE Returned(None)

\* load_cached_data, lines 70-81
load_cached_data(store, cache_key, get) ==
    IF get = "error" THEN Raised
    ELSE LET cached_data == IF get = "timeout" THEN None ELSE store[cache_key]
         IN  IF cached_data.kind = "frame" /\ ~IsEmpty(cached_data)
             THEN Returned(cached_data)
             ELSE Returned(None)

\* Mutant of NoValidDates: an entry without valid dates counts as fresh.
NoValidDatesFresh == TRUE

\* lines 39-54: the verdict when the newest date is NaT (not a Timestamp).
NoValidDates == FALSE

\* Mutant of OnException: the handler lets the exception through.
OnExceptionReraise(r) == r

\* lines 65-68: except Exception: log and return False
OnException(r) == IF r.exc THEN [exc |-> FALSE, value |-> FALSE] ELSE r

\* line 56: self.get_latest_trading_day() for each instant of the window,
\* as pairs << today, latest trading day >>.
LatestTradingDays == { << t, get_latest_trading_day("US", t) >> : t \in Todays }

LatestTradingDayAt(t) == (CHOOSE p \in LatestTradingDays : p[1] = t)[2]

\* Mutant of is_data_up_to_date: the comparison of line 59 is turned round.
IsUpToDateReversed(store, cache_key, today_, get, cal_fails) ==
    LET loaded == load_cached_data(store, cache_key, get)
        body ==
            IF loaded.exc THEN [exc |-> TRUE, value |-> FALSE]
            ELSE IF loaded.value = None THEN [exc |-> FALSE, value |-> FALSE]
            ELSE LET max_cached_date == MaxCachedDate(loaded.value)
                 IN  IF max_cached_date.nat
                     THEN [exc |-> FALSE, value |-> NoValidDates]
                     ELSE IF cal_fails THEN [exc |-> TRUE, value |-> FALSE]
                     ELSE LET latest_trading_day == DayOf(LatestTradingDayAt(today_))
                          IN  [exc |-> FALSE,
                               value |-> ~(DayOf(max_cached_date.at) > latest_trading_day)]
    IN  OnException(body)

\* is_data_up_to_date, lines 23-68; cal_fails: get_latest_trading_day raises.
is_data_up_to_date(store, cache_key, today_, get, cal_fails) ==
    LET loaded == load_cached_data(store, cache_key, get)
        body ==
            IF loaded.exc THEN [exc |-> TRUE, value |-> FALSE]
            ELSE IF loaded.value = None THEN [exc |-> FALSE, value |-> FALSE]
            ELSE LET max_cached_date == MaxCachedDate(loaded.value)
                 IN  IF max_cached_date.nat
                     THEN [exc |-> FALSE, value |-> NoValidDates]
                     ELSE IF cal_fails THEN [exc |-> TRUE, value |-> FALSE]
                     ELSE LET latest_trading_day == DayOf(LatestTradingDayAt(today_))
                          IN  [exc |-> FALSE,
                               value |-> ~(DayOf(max_cached_date.at) < latest_trading_day)]
    IN  OnException(body)

\* save_to_cache, lines 83-89: the store after cache.set(cache_key, data);
\* a timeout or an error of the store leaves the entry as it was.
save_to_cache(store, cache_key, data, set) ==
    IF set = "ok" THEN [store EXCEPT ![cache_key] = data] ELSE store

\* Mutant of clear_cache_for_key: every entry is removed.
ClearEveryKey(store, cache_key) == [k \in DOMAIN store |-> None]

\* clear_cache_for_key, lines 97-102
clear_cache_for_key(store, cache_key) ==
    IF store[cache_key] # None THEN [store EXCEPT ![cache_key] = None] ELSE store

\* clear_all_cache, lines 104-106
clear_all_cache(store) == [k \in DOMAIN store |-> None]

\* What a key holds, as the freshness check sees it: no entry, an entry
\* load_cached_data does not hand out, a table without any valid date, or
\* a table with one.
EntryState(v) ==
    CASE v = None -> "absent"
      [] v.kind # "frame" -> "unusable"
      [] IsEmpty(v) -> "unusable"
      [] MaxCachedDate(v).nat -> "undated"
      [] OTHER -> "dated"

\* One record per call: the operation, its arguments, the outcomes of its
\* store accesses, what the key held before, and what the call gave back.
NoOp == [ op |-> "none", key |-> "", use_cache |-> TRUE,
          get |-> "ok", cal_fails |-> FALSE, set |-> "ok",
          had |-> "absent", arg |-> None,
          exc |-> FALSE, value |-> FALSE, ret |-> None,
          executed |-> FALSE, stored |-> FALSE,
          market |-> "", trading_day |-> 0,
          rule |-> "", year |-> 0, resolved |-> 0, in_year |-> {} ]

\* The clock of the host moves on.
AdvanceToday ==
    /\ today + 1 \in Todays
    /\ today' = today + 1
    /\ last' = [NoOp EXCEPT !.op = "tick"]
    /\ UNCHANGED cache

IsDataUpToDate(k, get, cal_fails) ==
    /\ LET r == is_data_up_to_date(cache, k, today, get, cal_fails)
       IN  last' = [NoOp EXCEPT !.op = "is_data_up_to_date", !.key = k, !.get = get,
                                !.cal_fails = cal_fails, !.had = EntryState(cache[k]),
                                !.exc = r.exc, !.value = r.value]
    /\ UNCHANGED << today, cache >>

LoadCachedData(k, get) ==
    /\ LET r == load_cached_data(cache, k, get)
       IN  last' = [NoOp EXCEPT !.op = "load_cached_data", !.key = k, !.get = get,
                                !.had = EntryState(cache[k]),
                                !.exc = r.exc, !.ret = r.value]
    /\ UNCHANGED << today, cache >>

\* save_to_cache gives nothing back; it raises only when cache.set raises.
SaveToCache(k, data, set) ==
    /\ cache' = save_to_cache(cache, k, data, set)
    /\ last' = [NoOp EXCEPT !.op = "save_to_cache", !.key = k, !.set = set,
                            !.had = EntryState(cache[k]), !.arg = data,
                            !.exc = (set = "error"), !.stored = (set = "ok")]
    /\ UNCHANGED today

ClearCacheForKey(k) ==
    /\ cache' = clear_cache_for_key(cache, k)
    /\ last' = [NoOp EXCEPT !.op = "clear_cache_for_key", !.key = k,
                            !.had = EntryState(cache[k])]
    /\ UNCHANGED today

ClearAllCache ==
    /\ cache' = clear_all_cache(cache)
    /\ last' = [NoOp EXCEPT !.op = "clear_all_cache"]
    /\ UNCHANGED today

\* ------------------------------------------------------ cache_decorator.py
\* The verdicts line 42 can get for key k now, over the outcomes of the
\* store access and of the calendar computation inside the check.
FreshVerdicts(k) ==
    { is_data_up_to_date(cache, k, today, get, cal_fails).value :
          get \in StoreOutcomes, cal_fails \in BOOLEAN }

\* What line 44 can get for key k now, over the outcomes of the store access.
LoadResults(k) == { load_cached_data(cache, k, get) : get \in StoreOutcomes }

\* lines 48-52: call func, save what it returns unless that is None.
Fetch(k, entry, result, set) ==
    IF result = None
    THEN /\ last' = [entry EXCEPT !.executed = TRUE, !.ret = result]
         /\ UNCHANGED cache
    ELSE /\ cache' = save_to_cache(cache, k, result, set)
         /\ last' = [entry EXCEPT !.executed = TRUE, !.arg = result, !.set = set,
                                  !.exc = (set = "error"),
                                  !.ret = IF set = "error" THEN None ELSE result,
                                  !.stored = (set = "ok")]

\* func as the decorator sees it: what a call of it returns.
FuncResults == Payloads \cup {None}

\* wrapper, lines 25-52, for a call whose cache key is k.
Wrapper(k, use_cache) ==
    LET entry == [NoOp EXCEPT !.op = "wrapper", !.key = k, !.use_cache = use_cache,
                              !.had = EntryState(cache[k])]
    IN  /\ IF ~use_cache
           THEN \* lines 27-29
                \E result \in FuncResults :
                    /\ last' = [entry EXCEPT !.executed = TRUE, !.ret = result]
                    /\ UNCHANGED cache
           ELSE \E fresh \in FreshVerdicts(k) :
                    IF fresh
                    THEN \E cached_data \in LoadResults(k) :
                             IF cached_data.exc
                             THEN /\ last' = [entry EXCEPT !.value = TRUE, !.exc = TRUE]
                                  /\ UNCHANGED cache
                             ELSE IF cached_data.value # None
                                  THEN /\ last' = [entry EXCEPT !.value = TRUE,
                                                                !.ret = cached_data.value]
                                       /\ UNCHANGED cache
                                  ELSE \E result \in FuncResults, set \in StoreOutcomes :
                                           Fetch(k, [entry EXCEPT !.value = TRUE], result, set)
                    ELSE \E result \in FuncResults, set \in StoreOutcomes :
                             Fetch(k, entry, result, set)
        /\ UNCHANGED today

CacheKeys == {"AAPL_TIME_SERIES_DAILY"}

\* A caller that is not inside wrapper.
NoCaller == [pc |-> "idle", calls |-> 0, result |-> None, ret |-> None,
             exc |-> FALSE, executions |-> 0]

CacheInit ==
    /\ today = Midnight(FirstDay)
    /\ cache = [k \in Keys |-> None]
    /\ last = NoOp
    /\ archive = << >>
    /\ caller = [t \in Threads |-> NoCaller]
    /\ saves = << >>

\* ------------------------------------------------------- rate_limiter.py
\* A fresh per-call record: when the call was issued, how often it waited, how
\* many timestamps it appended, how often it invoked func, how it ended.
NoCall == [ n |-> 0, issued_at |-> 0, waited |-> 0, overslept |-> 0,
            recorded |-> 0, invoked |-> 0, pre_history |-> 0, pre_func |-> 0,
            outcome |-> "none" ]

\* Mutant of Prune: a timestamp exactly 60 seconds old is kept.
PruneInclusive(ts, n) == SelectSeq(ts, LAMBDA t : n - t <= interval)

\* line 25 / 33:  [t for t in call_timestamps if now - t < interval]
Prune(ts, n) == SelectSeq(ts, LAMBDA t : n - t < interval)

\* Mutant of IsFull: the comparison is off by one.
IsFullOffByOne(ts, max) == Len(ts) > max

\* line 26:  len(call_timestamps) >= max_requests_per_minute
IsFull(ts, max) == Len(ts) >= max

\* Mutant of SleepTime: the age of the oldest call is added.
SleepTimeSignSlip(ts, n) == interval + (n - ts[1])

\* line 28:  interval - (now - call_timestamps[0])
SleepTime(ts, n) == interval - (n - ts[1])

Max2(a, b) == IF a >= b THEN a ELSE b

\* rate_limited(max) applied to func (lines 5-37): no argument is validated;
\* the closure starts with an empty list.
RateLimited ==
    /\ ~decorated
    /\ decorated' = TRUE
    /\ call_timestamps' = << >>
    /\ UNCHANGED << clock, max_requests_per_minute, history, func_calls, pc, now,
                    sleep_time, wake_at, pruned, call >>

\* The wall clock advances.
Tick ==
    /\ clock + Quantum <= MaxTime
    /\ clock' = clock + Quantum
    /\ UNCHANGED << decorated, max_requests_per_minute, call_timestamps, history,
                    func_calls, pc, now, sleep_time, wake_at, pruned, call >>

\* wrapper, lines 21-35, run by a caller nobody interleaves with: from the
\* read of the clock to either the return of func, the IndexError of line 28,
\* or the start of time.sleep.
Call(t) ==
    /\ decorated
    /\ pc[t] = "idle"
    /\ LET n      == clock
           kept   == Prune(call_timestamps, n)
           c0     == [ NoCall EXCEPT !.n = call[t].n + 1, !.issued_at = n,
                                     !.pre_history = Len(history),
                                     !.pre_func = func_calls ]
       IN  /\ now' = [now EXCEPT ![t] = n]
           /\ IF IsFull(kept, max_requests_per_minute)
              THEN IF kept = << >>
                   THEN \* call_timestamps[0] on an empty list: IndexError
                        /\ call_timestamps' = kept
                        /\ call' = [call EXCEPT ![t] = [c0 EXCEPT !.outcome = "IndexError"]]
                        /\ UNCHANGED << pc, sleep_time, wake_at, history, func_calls >>
                   ELSE /\ call_timestamps' = kept
                        /\ sleep_time' = [sleep_time EXCEPT ![t] = SleepTime(kept, n)]
                        /\ wake_at' = [wake_at EXCEPT ![t] = clock + SleepTime(kept, n)]
                        /\ pc' = [pc EXCEPT ![t] = "sleeping"]
                        /\ call' = [call EXCEPT ![t] = [c0 EXCEPT !.waited = 1,
                                                                 !.outcome = "waiting"]]
                        /\ UNCHANGED << history, func_calls >>
              ELSE /\ call_timestamps' = Append(kept, n)
                   /\ history' = Append(history, n)
                   /\ func_calls' = func_calls + 1
                   /\ call' = [call EXCEPT ![t] = [c0 EXCEPT !.recorded = 1, !.invoked = 1,
                                                            !.outcome = "returned"]]
                   /\ UNCHANGED << pc, sleep_time, wake_at >>
    /\ UNCHANGED << clock, decorated, max_requests_per_minute, pruned >>

\* lines 30-35: time.sleep returns no earlier than requested; the clock is
\* read again, the list pruned again, the call recorded and func invoked.
Wake(t) ==
    /\ pc[t] = "sleeping"
    /\ LET n == Max2(clock, wake_at[t])
       IN  /\ n <= MaxTime
           /\ clock' = n
           /\ now' = [now EXCEPT ![t] = n]
           /\ call_timestamps' = Append(Prune(call_timestamps, n), n)
           /\ history' = Append(history, n)
           /\ func_calls' = func_calls + 1
           /\ call' = [call EXCEPT ![t].recorded = @ + 1, ![t].invoked = @ + 1,
                                   ![t].overslept = n - wake_at[t],
                                   ![t].outcome = "returned"]
    /\ pc' = [pc EXCEPT ![t] = "idle"]
    /\ UNCHANGED << decorated, max_requests_per_minute, sleep_time, wake_at, pruned >>

\* Mutant of Cancel: the interrupted call is recorded all the same.
CancelRecords(t) ==
    /\ pc[t] = "sleeping"
    /\ pc' = [pc EXCEPT ![t] = "idle"]
    /\ call_timestamps' = Append(call_timestamps, now[t])
    /\ history' = Append(history, now[t])
    /\ call' = [call EXCEPT ![t].outcome = "cancelled"]
    /\ UNCHANGED << clock, decorated, max_requests_per_minute,
                    func_calls, now, sleep_time, wake_at, pruned >>

\* line 30: time.sleep is interrupted by an exception (KeyboardInterrupt or
\* the like); wrapper has no handler, so the exception leaves wrapper at once.
Cancel(t) ==
    /\ pc[t] = "sleeping"
    /\ pc' = [pc EXCEPT ![t] = "idle"]
    /\ call' = [call EXCEPT ![t].outcome = "cancelled"]
    /\ UNCHANGED << clock, decorated, max_requests_per_minute, call_timestamps,
                    history, func_calls, now, sleep_time, wake_at, pruned >>

\* ------------------------------------------------------------ single caller
MaxChoices == (0 - 1) .. MaxLimit

Init ==
    /\ clock = 0
    /\ decorated = FALSE
    /\ max_requests_per_minute \in MaxChoices
    /\ call_timestamps = << >>
    /\ history = << >>
    /\ func_calls = 0
    /\ pc = [t \in Threads |-> "idle"]
    /\ now = [t \in Threads |-> 0]
    /\ sleep_time = [t \in Threads |-> 0]
    /\ wake_at = [t \in Threads |-> 0]
    /\ pruned = [t \in Threads |-> << >>]
    /\ call = [t \in Threads |-> NoCall]
    /\ script = "off"
    /\ start_time = 0
    /\ end_time = 0
    /\ results = << >>
    /\ drift = 0
    /\ CacheInit

Next ==
    \/ RateLimited /\ UNCHANGED << scriptVars, cacheVars >>
    \/ Tick /\ UNCHANGED << scriptVars, cacheVars >>
    \/ call[1].n < MaxCalls /\ Call(1) /\ UNCHANGED << scriptVars, cacheVars >>
    \/ Wake(1) /\ UNCHANGED << scriptVars, cacheVars >>
    \/ Cancel(1) /\ UNCHANGED << scriptVars, cacheVars >>

Spec == Init /\ [][Next]_vars

\* ------------------------------------- wrapper shared by concurrent callers
\* wrapper takes no lock: between any two of its statements, and between the
\* evaluation of a list comprehension and the rebinding of call_timestamps,
\* another thread may run.  One action per such step.

\* line 23:  now = time.time()
ReadNow(t) ==
    /\ pc[t] = "idle"
    /\ now' = [now EXCEPT ![t] = clock]
    /\ pc' = [pc EXCEPT ![t] = "L25"]
    /\ call' = [call EXCEPT ![t] = [ NoCall EXCEPT !.n = call[t].n + 1,
                                                  !.outcome = "running" ]]
    /\ UNCHANGED << clock, decorated, max_requests_per_minute, call_timestamps,
                    history, func_calls, sleep_time, wake_at, pruned >>

\* lines 25 and 33, right-hand side: the comprehension builds a new list.
BuildPruned(t) ==
    /\ pc[t] \in {"L25", "L33"}
    /\ pruned' = [pruned EXCEPT ![t] = Prune(call_timestamps, now[t])]
    /\ pc' = [pc EXCEPT ![t] = IF pc[t] = "L25" THEN "L25bind" ELSE "L33bind"]
    /\ UNCHANGED << clock, decorated, max_requests_per_minute, call_timestamps,
                    history, func_calls, now, sleep_time, wake_at, call >>

\* lines 25 and 33, the assignment: call_timestamps is rebound to the new list.
BindPruned(t) ==
    /\ pc[t] \in {"L25bind", "L33bind"}
    /\ call_timestamps' = pruned[t]
    /\ pc' = [pc EXCEPT ![t] = IF pc[t] = "L25bind" THEN "L26" ELSE "L34"]
    /\ UNCHANGED << clock, decorated, max_requests_per_minute, history, func_calls,
                    now, sleep_time, wake_at, pruned, call >>

\* line 26:  if len(call_timestamps) >= max_requests_per_minute
TestFull(t) ==
    /\ pc[t] = "L26"
    /\ pc' = [pc EXCEPT ![t] = IF IsFull(call_timestamps, max_requests_per_minute)
                               THEN "L28" ELSE "L34"]
    /\ UNCHANGED << clock, decorated, max_requests_per_minute, call_timestamps,
                    history, func_calls, now, sleep_time, wake_at, pruned, call >>

\* lines 28-30: sleep_time is computed from the list as it is now (IndexError
\* when another thread has emptied it meanwhile) and time.sleep starts.
StartSleep(t) ==
    /\ pc[t] = "L28"
    /\ IF call_timestamps = << >>
       THEN /\ pc' = [pc EXCEPT ![t] = "idle"]
            /\ call' = [call EXCEPT ![t].outcome = "IndexError"]
            /\ UNCHANGED << sleep_time, wake_at >>
       ELSE /\ sleep_time' = [sleep_time EXCEPT ![t] = SleepTime(call_timestamps, now[t])]
            /\ wake_at' = [wake_at EXCEPT ![t] = clock + SleepTime(call_timestamps, now[t])]
            /\ pc' = [pc EXCEPT ![t] = "sleeping"]
            /\ call' = [call EXCEPT ![t].waited = @ + 1, ![t].outcome = "waiting"]
    /\ UNCHANGED << clock, decorated, max_requests_per_minute, call_timestamps,
                    history, func_calls, now, pruned >>

\* lines 30-31: time.sleep returns no earlier than requested (a negative or
\* zero sleep_time returns at once) and the clock is read again.
EndSleep(t) ==
    /\ pc[t] = "sleeping"
    /\ LET n == Max2(clock, wake_at[t])
       IN  /\ n <= MaxTime
           /\ clock' = n
           /\ now' = [now EXCEPT ![t] = n]
           /\ call' = [call EXCEPT ![t].outcome = "running"]
    /\ pc' = [pc EXCEPT ![t] = "L33"]
    /\ UNCHANGED << decorated, max_requests_per_minute, call_timestamps, history,
                    func_calls, sleep_time, wake_at, pruned >>

\* line 34:  call_timestamps.append(now)
AppendNow(t) ==
    /\ pc[t] = "L34"
    /\ call_timestamps' = Append(call_timestamps, now[t])
    /\ history' = Append(history, now[t])
    /\ call' = [call EXCEPT ![t].recorded = @ + 1]
    /\ pc' = [pc EXCEPT ![t] = "L35"]
    /\ UNCHANGED << clock, decorated, max_requests_per_minute, func_calls, now,
                    sleep_time, wake_at, pruned >>

\* line 35:  return func(*args, **kwargs)
InvokeFunc(t) ==
    /\ pc[t] = "L35"
    /\ func_calls' = func_calls + 1
    /\ call' = [call EXCEPT ![t].invoked = @ + 1, ![t].outcome = "returned"]
    /\ pc' = [pc EXCEPT ![t] = "idle"]
    /\ UNCHANGED << clock, decorated, max_requests_per_minute, call_timestamps,
                    history, now, sleep_time, wake_at, pruned >>

InitConc ==
    /\ clock = 0
    /\ decorated = TRUE
    /\ max_requests_per_minute \in 1 .. MaxLimit
    /\ call_timestamps = << >>
    /\ history = << >>
    /\ func_calls = 0
    /\ pc = [t \in Threads |-> "idle"]
    /\ now = [t \in Threads |-> 0]
    /\ sleep_time = [t \in Threads |-> 0]
    /\ wake_at = [t \in Threads |-> 0]
    /\ pruned = [t \in Threads |-> << >>]
    /\ call = [t \in Threads |-> NoCall]
    /\ script = "off"
    /\ start_time = 0
    /\ end_time = 0
    /\ results = << >>
    /\ drift = 0
    /\ CacheInit

NextConc ==
    \/ clock < ConcHorizon /\ Tick /\ UNCHANGED << scriptVars, cacheVars >>
    \/ \E t \in Threads : call[t].n < ConcCalls /\ ReadNow(t) /\ UNCHANGED << scriptVars, cacheVars >>
    \/ \E t \in Threads : BuildPruned(t) /\ UNCHANGED << scriptVars, cacheVars >>
    \/ \E t \in Threads : BindPruned(t) /\ UNCHANGED << scriptVars, cacheVars >>
    \/ \E t \in Threads : TestFull(t) /\ UNCHANGED << scriptVars, cacheVars >>
    \/ \E t \in Threads : StartSleep(t) /\ UNCHANGED << scriptVars, cacheVars >>
    \/ \E t \in Threads : EndSleep(t) /\ UNCHANGED << scriptVars, cacheVars >>
    \/ \E t \in Threads : AppendNow(t) /\ UNCHANGED << scriptVars, cacheVars >>
    \/ \E t \in Threads : InvokeFunc(t) /\ UNCHANGED << scriptVars, cacheVars >>

SpecConc == InitConc /\ [][NextConc]_vars

\* ------------------------------------- the __main__ test, lines 43-62
\* line 48:  @rate_limited(5)
TestLimit == 5
\* line 57:  for i in range(10)
TestCalls == 10

\* line 51:  return x * 2
TestApiCall(x) == x * 2

\* lines 48-53: the limiter is applied to test_api_call, start_time is read.
MainStart ==
    /\ script = "start"
    /\ RateLimited
    /\ start_time' = clock
    /\ script' = "loop"
    /\ UNCHANGED << end_time, results, drift, cacheVars >>

\* The clock advances between two statements of the test.
MainTick ==
    /\ script = "loop"
    /\ drift < MaxDrift
    /\ Tick
    /\ drift' = drift + 1
    /\ UNCHANGED << script, start_time, end_time, results, cacheVars >>

\* lines 57-58: results.append(test_api_call(i)), up to the return of the
\* call or the start of its sleep.
MainCall ==
    /\ script = "loop"
    /\ Len(results) < TestCalls
    /\ Call(1)
    /\ results' = IF call'[1].outcome = "returned"
                  THEN Append(results, TestApiCall(Len(results)))
                  ELSE results
    /\ UNCHANGED << script, start_time, end_time, drift, cacheVars >>

\* line 58, after the sleep of a call that had to wait.
MainWake ==
    /\ script = "loop"
    /\ Wake(1)
    /\ results' = Append(results, TestApiCall(Len(results)))
    /\ UNCHANGED << script, start_time, end_time, drift, cacheVars >>

\* line 60: end_time is read after the loop.
MainEnd ==
    /\ script = "loop"
    /\ pc[1] = "idle"
    /\ Len(results) = TestCalls
    /\ end_time' = clock
    /\ script' = "done"
    /\ UNCHANGED << rlVars, start_time, results, drift, cacheVars >>

InitTen ==
    /\ clock \in {0, Quantum}
    /\ decorated = FALSE
    /\ max_requests_per_minute = TestLimit
    /\ call_timestamps = << >>
    /\ history = << >>
    /\ func_calls = 0
    /\ pc = [t \in Threads |-> "idle"]
    /\ now = [t \in Threads |-> 0]
    /\ sleep_time = [t \in Threads |-> 0]
    /\ wake_at = [t \in Threads |-> 0]
    /\ pruned = [t \in Threads |-> << >>]
    /\ call = [t \in Threads |-> NoCall]
    /\ script = "start"
    /\ start_time = 0
    /\ end_time = 0
    /\ results = << >>
    /\ drift = 0
    /\ CacheInit

NextTen ==
    \/ MainStart
    \/ MainTick
    \/ MainCall
    \/ MainWake
    \/ MainEnd

SpecTen == InitTen /\ [][NextTen]_vars

\* ------------------------------------------- the cache used on its own
\* The rate limiter is not involved: its state stays as constructed.
RateLimiterIdle ==
    /\ clock = 0
    /\ decorated = FALSE
    /\ max_requests_per_minute = 1
    /\ call_timestamps = << >>
    /\ history = << >>
    /\ func_calls = 0
    /\ pc = [t \in Threads |-> "idle"]
    /\ now = [t \in Threads |-> 0]
    /\ sleep_time = [t \in Threads |-> 0]
    /\ wake_at = [t \in Threads |-> 0]
    /\ pruned = [t \in Threads |-> << >>]
    /\ call = [t \in Threads |-> NoCall]
    /\ script = "off"
    /\ start_time = 0
    /\ end_time = 0
    /\ results = << >>
    /\ drift = 0

InitCache == RateLimiterIdle /\ CacheInit

NextCache ==
    \/ AdvanceToday /\ UNCHANGED << rlVars, scriptVars, archive, sharedVars >>
    \/ \E k \in CacheKeys, get \in StoreOutcomes, cal_fails \in BOOLEAN :
           IsDataUpToDate(k, get, cal_fails) /\ UNCHANGED << rlVars, scriptVars, archive, sharedVars >>
    \/ \E k \in CacheKeys, get \in StoreOutcomes :
           LoadCachedData(k, get) /\ UNCHANGED << rlVars, scriptVars, archive, sharedVars >>
    \/ \E k \in CacheKeys, data \in Payloads, set \in StoreOutcomes :
           SaveToCache(k, data, set) /\ UNCHANGED << rlVars, scriptVars, archive, sharedVars >>
    \/ \E k \in CacheKeys :
           ClearCacheForKey(k) /\ UNCHANGED << rlVars, scriptVars, archive, sharedVars >>
    \/ ClearAllCache /\ UNCHANGED << rlVars, scriptVars, archive, sharedVars >>
    \/ \E k \in CacheKeys, use_cache \in BOOLEAN :
           Wrapper(k, use_cache) /\ UNCHANGED << rlVars, scriptVars, archive, sharedVars >>

SpecCache == InitCache /\ [][NextCache]_vars

\* ------------- cache_decorator around a rate-limited fetch, one caller
\* @cache_decorator() on top of @rate_limited(max): the func of the cache
\* wrapper (cache_decorator.py lines 29 and 49) is the wrapper of
\* rate_limiter.py, which records a timestamp and then runs the fetch.

\* Mutant of PassesLimiter: the decorators are stacked the other way round,
\* so every call goes through the limiter first.
PassesLimiterAlways(calls_func) == TRUE

\* cache_decorator.py lines 29 / 49: the limiter is entered when, and only
\* when, the cache wrapper calls func.
PassesLimiter(calls_func) == calls_func

\* cache_decorator.py lines 27-47: the cache wrapper can get as far as
\* calling func: caching is off, the entry is judged not up to date, or the
\* load after a positive verdict gives None.
ReachesFunc(k, use_cache) ==
    \/ ~use_cache
    \/ \E fresh \in FreshVerdicts(k) :
           \/ ~fresh
           \/ \E cached_data \in LoadResults(k) :
                  ~cached_data.exc /\ cached_data.value = None

\* What the fetch gives back here: nothing, something that is no table, a
\* table dated today, and a table without any valid date.
FetchedValues ==
    { None, NotAFrame,
      Frame(FALSE, << >>, << DatetimeCell(Midnight(FirstDay) + 1) >>),
      Frame(FALSE, << >>, << JunkCell >>) }

\* The record of a call of the cache wrapper that has got as far as func.
AtFunc(k, use_cache) ==
    [NoOp EXCEPT !.op = "wrapper", !.key = k, !.use_cache = use_cache,
                 !.had = EntryState(cache[k])]

\* One call of the decorated fetch, up to its return or to the start of the
\* limiter's sleep.
CachedLimitedCall(k, use_cache) ==
    /\ decorated
    /\ pc[1] = "idle"
    /\ last.op # "wrapper_waiting"
    /\ \/ \* the cache wrapper returns without calling func
          /\ Wrapper(k, use_cache)
          /\ ~last'.executed
          /\ IF PassesLimiter(FALSE)
             THEN Call(1) /\ call'[1].outcome = "returned"
             ELSE UNCHANGED rlVars
       \/ \* func is called, the limiter admits the call at once, the fetch
          \* runs and the cache wrapper finishes
          /\ call[1].n < FetchCalls
          /\ Wrapper(k, use_cache)
          /\ last'.executed
          /\ (IF last'.exc THEN last'.arg ELSE last'.ret) \in FetchedValues
          /\ IF PassesLimiter(TRUE)
             THEN Call(1) /\ call'[1].outcome = "returned"
             ELSE UNCHANGED rlVars
       \/ \* func is called and the limiter starts to sleep (line 30)
          /\ call[1].n < FetchCalls
          /\ ReachesFunc(k, use_cache)
          /\ PassesLimiter(TRUE)
          /\ Call(1)
          /\ call'[1].outcome = "waiting"
          /\ last' = [AtFunc(k, use_cache) EXCEPT !.op = "wrapper_waiting"]
          /\ UNCHANGED << today, cache >>
       \/ \* func is called and the limiter raises (line 28 on an empty list)
          /\ call[1].n < FetchCalls
          /\ ReachesFunc(k, use_cache)
          /\ PassesLimiter(TRUE)
          /\ Call(1)
          /\ call'[1].outcome = "IndexError"
          /\ last' = [AtFunc(k, use_cache) EXCEPT !.exc = TRUE]
          /\ UNCHANGED << today, cache >>

\* The sleep is over: the limiter records the call, the fetch runs, and the
\* cache wrapper goes on with lines 50-52 (or returns, with caching off).
CachedLimitedWake ==
    /\ last.op = "wrapper_waiting"
    /\ Wake(1)
    /\ LET entry == [last EXCEPT !.op = "wrapper"]
       IN  IF ~last.use_cache
           THEN /\ \E result \in FetchedValues :
                       last' = [entry EXCEPT !.executed = TRUE, !.ret = result]
                /\ UNCHANGED cache
           ELSE \E result \in FetchedValues, set \in StoreOutcomes :
                    Fetch(last.key, entry, result, set)
    /\ UNCHANGED today

\* The sleep is interrupted: the exception leaves both wrappers.
CachedLimitedCancel ==
    /\ last.op = "wrapper_waiting"
    /\ Cancel(1)
    /\ last' = [last EXCEPT !.op = "wrapper", !.exc = TRUE]
    /\ UNCHANGED << today, cache >>

InitComposed ==
    /\ clock = 0
    /\ decorated = TRUE
    /\ max_requests_per_minute \in MaxChoices
    /\ call_timestamps = << >>
    /\ history = << >>
    /\ func_calls = 0
    /\ pc = [t \in Threads |-> "idle"]
    /\ now = [t \in Threads |-> 0]
    /\ sleep_time = [t \in Threads |-> 0]
    /\ wake_at = [t \in Threads |-> 0]
    /\ pruned = [t \in Threads |-> << >>]
    /\ call = [t \in Threads |-> NoCall]
    /\ script = "off"
    /\ start_time = 0
    /\ end_time = 0
    /\ results = << >>
    /\ drift = 0
    /\ CacheInit

NextComposed ==
    \/ clock < FetchHorizon /\ Tick /\ UNCHANGED << scriptVars, cacheVars >>
    \/ \E k \in CacheKeys, use_cache \in BOOLEAN :
           CachedLimitedCall(k, use_cache) /\ UNCHANGED << scriptVars, archive, sharedVars >>
    \/ CachedLimitedWake /\ UNCHANGED << scriptVars, archive, sharedVars >>
    \/ CachedLimitedCancel /\ UNCHANGED << scriptVars, archive, sharedVars >>

SpecComposed == InitComposed /\ [][NextComposed]_vars

\* ------------------------------- get_latest_trading_day asked on its own
CalFirstDay == DaysFromCivil(2023, 12, 23)
CalInstants == Midnight(CalFirstDay) .. (Midnight(CalFirstDay + CalDays) - 1)

\* The markets asked for: the three of market_holidays.py and two that are
\* not in the table (its keys are matched exactly, so "us" is not "US").
Markets == {"US", "Japan", "UK", "DE", "us"}

GetLatestTradingDay(market) ==
    /\ last' = [NoOp EXCEPT !.op = "get_latest_trading_day", !.market = market,
                            !.trading_day = get_latest_trading_day(market, today)]
    /\ UNCHANGED << today, cache, archive, sharedVars >>

AdvanceCal ==
    /\ today + 1 \in CalInstants
    /\ today' = today + 1
    /\ last' = [NoOp EXCEPT !.op = "tick"]
    /\ UNCHANGED << cache, archive, sharedVars >>

InitCal ==
    /\ RateLimiterIdle
    /\ today \in CalInstants
    /\ cache = [k \in Keys |-> None]
    /\ last = NoOp
    /\ archive = << >>
    /\ caller = [t \in Threads |-> NoCaller]
    /\ saves = << >>

NextCal ==
    \/ AdvanceCal /\ UNCHANGED << rlVars, scriptVars >>
    \/ \E market \in Markets :
           GetLatestTradingDay(market) /\ UNCHANGED << rlVars, scriptVars >>

SpecCal == InitCal /\ [][NextCal]_vars

\* ------------------------------ market_holidays.py: the rules, year by year
\* The years asked about; 1 November is a Thursday in 2018 and 2029, a
\* Friday in 2019 and 2024.
RuleYearSet == 2018 .. (2018 + RuleYears - 1)

\* Holiday.dates(start, end) of one rule: the dates (as days) it yields in
\* that range.
HolidayDates(rule, start, end) == { DayOf(h) : h \in Holidays({rule}, start, end) }

\* lines 62-66: year = datetime.now().year and the holidays of that year,
\* from 1 January to 31 December; here for one rule of one calendar, with
\* the date the rule makes of its reference date of that year.
ResolveRule(market, rule) ==
    /\ LET year == YearOf(today)
       IN  last' = [NoOp EXCEPT !.op = "resolve", !.market = market,
                                !.rule = rule.name, !.year = year,
                                !.resolved = RuleDate(rule, year),
                                !.in_year =
                                    HolidayDates(rule,
                                                 Midnight(DaysFromCivil(year, 1, 1)),
                                                 Midnight(DaysFromCivil(year, 12, 31)))]
    /\ UNCHANGED << today, cache, archive, sharedVars >>

\* A year goes by.
AdvanceYear ==
    /\ YearOf(today) + 1 \in RuleYearSet
    /\ today' = Midnight(DaysFromCivil(YearOf(today) + 1, 1, 1))
    /\ last' = [NoOp EXCEPT !.op = "tick"]
    /\ UNCHANGED << cache, archive, sharedVars >>

InitRules ==
    /\ RateLimiterIdle
    /\ today \in { Midnight(DaysFromCivil(y, 1, 1)) : y \in RuleYearSet }
    /\ cache = [k \in Keys |-> None]
    /\ last = NoOp
    /\ archive = << >>
    /\ caller = [t \in Threads |-> NoCaller]
    /\ saves = << >>

NextRules ==
    \/ AdvanceYear /\ UNCHANGED << rlVars, scriptVars >>
    \/ \E market \in RegisteredMarkets :
           \E rule \in market_holiday_calendars(market) :
               ResolveRule(market, rule) /\ UNCHANGED << rlVars, scriptVars >>

SpecRules == InitRules /\ [][NextRules]_vars

\* ------------------------------------------- cache_manager.py: the archive
\* Strings that are put together are sequences of characters.
DigitChars == << "0", "1", "2", "3", "4", "5", "6", "7", "8", "9" >>

RECURSIVE Power10(_)
Power10(w) == IF w = 0 THEN 1 ELSE 10 * Power10(w - 1)

\* n written with w digits, zero padded (%Y, %m, %d, %H, %M, %S).
ZeroPadded(n, w) == [i \in 1 .. w |-> DigitChars[((n \div Power10(w - i)) % 10) + 1]]

\* The second of the day an instant stands for.
SecondOfDay(ts) == ((ts % TicksPerDay) * 86400) \div TicksPerDay

\* Mutant of strftime: the time of day is left out of the stamp.
strftimeDayOnly(ts) ==
    LET c == CivilFromDays(DayOf(ts))
    IN  ZeroPadded(c.year, 4) \o ZeroPadded(c.month, 2) \o ZeroPadded(c.day, 2)
        \o << "_" >> \o ZeroPadded(0, 6)

\* line 92: datetime.now().strftime("%Y%m%d_%H%M%S")
strftime(ts) ==
    LET c == CivilFromDays(DayOf(ts))
        sec == SecondOfDay(ts)
    IN  ZeroPadded(c.year, 4) \o ZeroPadded(c.month, 2) \o ZeroPadded(c.day, 2)
        \o << "_" >>
        \o ZeroPadded(sec \div 3600, 2) \o ZeroPadded((sec \div 60) % 60, 2)
        \o ZeroPadded(sec % 60, 2)

\* line 93: f"{cache_key}_{timestamp}.csv", the file name inside archive_dir
archive_path(cache_key, timestamp) ==
    cache_key \o << "_" >> \o timestamp \o << ".", "c", "s", "v" >>

\* line 94: old_data.to_csv(archive_path, index=False): the columns are
\* written, the index is not.
to_csv(old_data) == [has_date |-> old_data.has_date, date |-> old_data.date]

\* archive_data, lines 91-95, called at instant ts: the archive directory
\* afterwards.  A value that is no DataFrame has no to_csv and a failing
\* write raises; both leave the directory as it was.  With each file goes
\* the key and instant of the call that wrote it and whether it replaced
\* an earlier file of that name.
archive_data(files, cache_key, old_data, ts, write) ==
    LET path == archive_path(cache_key, strftime(ts))
        file == [content |-> to_csv(old_data), key |-> cache_key, at |-> ts,
                 replaced |-> path \in DOMAIN files]
    IN  IF old_data.kind # "frame" \/ write = "error"
        THEN [exc |-> TRUE, files |-> files]
        ELSE [exc |-> FALSE,
              files |-> [n \in DOMAIN files \cup {path} |->
                            IF n = path THEN file ELSE files[n]]]

\* Keys the archive is asked to file, one of them looking like the archive
\* name of another.
ArchiveKeys ==
    { << "A" >>, << "A", "_" >>, << "A" >> \o << "_" >> \o strftime(Midnight(FirstDay)) }

\* What is handed to archive_data: a value that is no table, and tables of
\* one row dated by a string, in the index or in the 'date' column.
ArchivePayloads ==
    { p \in SmallPayloads :
        \/ p.kind # "frame"
        \/ /\ EntryState(p) = "dated"
           /\ \A i \in DOMAIN p.date : p.date[i].form = "string"
           /\ p.has_date \/ \A i \in DOMAIN p.index : p.index[i].form = "string" }

ArchiveData(k, old_data, write) ==
    /\ LET r == archive_data(archive, k, old_data, today, write)
       IN  /\ archive' = r.files
           /\ last' = [NoOp EXCEPT !.op = "archive_data", !.exc = r.exc,
                                   !.stored = ~r.exc]
    /\ UNCHANGED << today, cache, sharedVars >>

InitArchive == RateLimiterIdle /\ CacheInit

NextArchive ==
    \/ AdvanceToday /\ UNCHANGED << rlVars, scriptVars, archive, sharedVars >>
    \/ \E k \in ArchiveKeys, old_data \in ArchivePayloads, write \in {"ok", "error"} :
           /\ \/ Cardinality(DOMAIN archive) < MaxArchived
              \/ archive_path(k, strftime(today)) \in DOMAIN archive
           /\ ArchiveData(k, old_data, write)
           /\ UNCHANGED << rlVars, scriptVars >>

SpecArchive == InitArchive /\ [][NextArchive]_vars

\* ------------------------------- wrapper run by concurrent callers, one key
\* The position of a caller is the line of cache_decorator.py it is about
\* to execute; every access to the store is one step.
SharedKey == "AAPL_TIME_SERIES_DAILY"

\* What the wrapped function returns to these callers: tables of one row
\* with a valid date.
FetchResults == { p \in SmallPayloads : EntryState(p) = "dated" }

CallerStep == [NoOp EXCEPT !.op = "caller", !.key = SharedKey]

\* lines 25-39: the call enters wrapper with caching enabled.
EnterWrapper(t) ==
    /\ caller[t].pc \in {"idle", "done"}
    /\ caller[t].calls < ConcFetches
    /\ caller' = [caller EXCEPT ![t] = [NoCaller EXCEPT !.pc = "L42",
                                            !.calls = caller[t].calls + 1,
                                            !.executions = caller[t].executions]]
    /\ last' = CallerStep
    /\ UNCHANGED << today, cache, archive, saves >>

\* line 42: if cache_manager.is_data_up_to_date(cache_key)
CheckUpToDate(t) ==
    /\ caller[t].pc = "L42"
    /\ \E fresh \in FreshVerdicts(SharedKey) :
           caller' = [caller EXCEPT ![t].pc = IF fresh THEN "L44" ELSE "L49"]
    /\ last' = CallerStep
    /\ UNCHANGED << today, cache, archive, saves >>

\* lines 44-46: load the entry and return it unless it is None.
LoadHit(t) ==
    /\ caller[t].pc = "L44"
    /\ \E cached_data \in LoadResults(SharedKey) :
           caller' = [caller EXCEPT ![t] =
               IF cached_data.exc THEN [@ EXCEPT !.pc = "done", !.exc = TRUE]
               ELSE IF cached_data.value # None
                    THEN [@ EXCEPT !.pc = "done", !.ret = cached_data.value]
                    ELSE [@ EXCEPT !.pc = "L49"]]
    /\ last' = CallerStep
    /\ UNCHANGED << today, cache, archive, saves >>

\* lines 49-50: result = func(*args, **kwargs)
CallFunc(t) ==
    /\ caller[t].pc = "L49"
    /\ \E result \in FetchResults \cup {None} :
           caller' = [caller EXCEPT ![t] =
               IF result = None
               THEN [@ EXCEPT !.pc = "done", !.executions = @ + 1]
               ELSE [@ EXCEPT !.pc = "L51", !.result = result,
                              !.executions = @ + 1]]
    /\ last' = CallerStep
    /\ UNCHANGED << today, cache, archive, saves >>

\* lines 51-52: cache_manager.save_to_cache(cache_key, result); return result
SaveResult(t) ==
    /\ caller[t].pc = "L51"
    /\ \E set \in StoreOutcomes :
           /\ cache' = save_to_cache(cache, SharedKey, caller[t].result, set)
           /\ caller' = [caller EXCEPT ![t] =
                  IF set = "error" THEN [@ EXCEPT !.pc = "done", !.exc = TRUE]
                  ELSE [@ EXCEPT !.pc = "done", !.ret = caller[t].result]]
           /\ saves' = IF set = "error" THEN saves
                       ELSE Append(saves, [by |-> t, data |-> caller[t].result])
    /\ last' = CallerStep
    /\ UNCHANGED << today, archive >>

InitShared == RateLimiterIdle /\ CacheInit

NextShared ==
    \/ \E t \in Threads : EnterWrapper(t) /\ UNCHANGED << rlVars, scriptVars >>
    \/ \E t \in Threads : CheckUpToDate(t) /\ UNCHANGED << rlVars, scriptVars >>
    \/ \E t \in Threads : LoadHit(t) /\ UNCHANGED << rlVars, scriptVars >>
    \/ \E t \in Threads : CallFunc(t) /\ UNCHANGED << rlVars, scriptVars >>
    \/ \E t \in Threads : SaveResult(t) /\ UNCHANGED << rlVars, scriptVars >>
    \/ \E get \in StoreOutcomes :
           LoadCachedData(SharedKey, get)
           /\ UNCHANGED << rlVars, scriptVars, archive, sharedVars >>

SpecShared == InitShared /\ [][NextShared]_vars

\* ------------------------------------------- the store holding two keys
InitKeys == RateLimiterIdle /\ CacheInit

NextKeys ==
    \/ \E k \in Keys, data \in SmallPayloads, set \in StoreOutcomes :
           SaveToCache(k, data, set) /\ UNCHANGED << rlVars, scriptVars, archive, sharedVars >>
    \/ \E k \in Keys, get \in StoreOutcomes :
           LoadCachedData(k, get) /\ UNCHANGED << rlVars, scriptVars, archive, sharedVars >>
    \/ \E k \in Keys :
           ClearCacheForKey(k) /\ UNCHANGED << rlVars, scriptVars, archive, sharedVars >>
    \/ ClearAllCache /\ UNCHANGED << rlVars, scriptVars, archive, sharedVars >>

SpecKeys == InitKeys /\ [][NextKeys]_vars

\* ----------------------------------------------------- limiter properties
\* Recorded timestamps t with T - 60s < t <= T.
InWindow(h, T) == { i \in DOMAIN h : h[i] <= T /\ T - h[i] < interval }

\* C1: through one wrapper with max >= 1 used by one caller at a time, at
\* every instant the number of recorded call timestamps in the trailing
\* 60-second window (now - 60s, now] is at most max.
C1_WindowBound ==
    max_requests_per_minute >= 1 =>
        Cardinality(InWindow(history, clock)) <= max_requests_per_minute

\* C1 witness: a call found the window full, waited, and was recorded, and
\* the window holds exactly max timestamps.
C1_Witness ==
    /\ max_requests_per_minute >= 1
    /\ call[1].outcome = "returned" /\ call[1].waited = 1
    /\ Len(history) > max_requests_per_minute
    /\ Cardinality(InWindow(history, clock)) = max_requests_per_minute

C5_RejectedAtConstruction ==
    max_requests_per_minute <= 0 =>
        /\ ~decorated
        /\ \A t \in Threads : call[t].n = 0

\* C6: when the sleep of a waiting call is interrupted, the call records no
\* timestamp, func is not invoked for it, and the list holds exactly the
\* timestamps of the earlier admitted calls that were unexpired when the
\* call was issued.
C6_CancelRecordsNothing ==
    call[1].outcome = "cancelled" =>
        /\ call[1].recorded = 0
        /\ call[1].invoked = 0
        /\ Len(history) = call[1].pre_history
        /\ func_calls = call[1].pre_func
        /\ call_timestamps = Prune(history, call[1].issued_at)

\* C6 witness: a cancelled wait after which the list still holds timestamps,
\* while an older recorded timestamp has expired.
C6_Witness ==
    /\ call[1].outcome = "cancelled"
    /\ call_timestamps # << >>
    /\ Len(call_timestamps) < Len(history)

\* Earlier recorded timestamps within 60 seconds of the i-th one.
Predecessors(h, i) == { j \in 1 .. (i - 1) : h[i] - h[j] < interval }

\* C4: with a maximum of 5, the ten back-to-back calls of the test take at
\* least 60 seconds in all, record exactly ten timestamps, one per call, and
\* no recorded timestamp is within 60 seconds of more than 4 earlier ones.
C4_TenRapidCalls ==
    /\ Len(history) = Len(results)
    /\ script = "done" =>
          /\ end_time - start_time >= interval
          /\ Len(history) = TestCalls
          /\ results = [i \in 1 .. TestCalls |-> 2 * (i - 1)]
          /\ \A i \in 1 .. Len(history) :
                 Cardinality(Predecessors(history, i)) <= TestLimit - 1

\* C4 witness: the test is over and had to wait twice (the sixth and the
\* last recorded timestamps differ).
C4_Witness ==
    /\ script = "done"
    /\ Len(history) = TestCalls
    /\ history[6] < history[TestCalls]
    /\ end_time - start_time > interval

\* C2: with one limiter shared by concurrent callers, under every
\* interleaving of the steps of their calls no trailing 60-second window,
\* ending now or at any recorded timestamp, holds more than max recorded
\* timestamps (the mutations of the list being serialized).
C2_ConcurrentWindowBound ==
    /\ Cardinality(InWindow(history, clock)) <= max_requests_per_minute
    /\ \A i \in DOMAIN history :
           Cardinality(InWindow(history, history[i])) <= max_requests_per_minute

\* ------------------------------------------------------- cache properties
\* The days of the window and of the year before it that the US rule set
\* marks as holidays.
USHolidayDays ==
    { DayOf(h) : h \in Holidays(USMarketHolidayCalendar,
                                MinusOneYear(Midnight(FirstDay)),
                                Midnight(FirstDay + WindowDays)) }

\* The latest US trading day as of day d: the last day up to d that is
\* neither a Saturday or Sunday nor a holiday.
RECURSIVE LatestUSTradingDay(_)
LatestUSTradingDay(d) ==
    IF DayWeekday(d) >= 5 \/ d \in USHolidayDays
    THEN LatestUSTradingDay(d - 1)
    ELSE d

\* C7: for a key holding a non-empty entry with at least one valid date,
\* is_data_up_to_date returns true exactly when the date part of the entry's
\* newest date is on or after the latest US trading day as of now, and false
\* when it is strictly earlier (store and calendar working).
C7_FreshIffNewestOnOrAfterLatest ==
    (/\ last.op = "is_data_up_to_date"
     /\ last.had = "dated"
     /\ last.get = "ok"
     /\ ~last.cal_fails)
    => (last.value <=> DayOf(MaxCachedDate(cache[last.key]).at)
                           >= LatestUSTradingDay(DayOf(today)))

\* C8: is_data_up_to_date never raises, whatever the key holds and whatever
\* fails inside it; a failing load, a failing calendar computation and an
\* entry that is absent, unusable or undated all give the result false.
C8_NeverRaises ==
    last.op = "is_data_up_to_date"
    => /\ ~last.exc
       /\ (last.get # "ok" \/ last.cal_fails \/ last.had # "dated")
              => last.value = FALSE

\* C8 witness: the store raised while the check read an entry with valid
\* dates, and the check returned false.
C8_Witness ==
    /\ last.op = "is_data_up_to_date"
    /\ last.had = "dated"
    /\ last.get = "error"
    /\ ~last.exc
    /\ last.value = FALSE

\* C9: for a stored entry in which no date can be parsed,
\* is_data_up_to_date returns false, and the decorated call, as for an
\* absent key, gets no hit and executes the function.
C9_UndatedEntryIsAMiss ==
    /\ (last.op = "is_data_up_to_date" /\ last.had \in {"undated", "absent"})
           => (~last.exc /\ last.value = FALSE)
    /\ (last.op = "wrapper" /\ last.use_cache /\ last.had \in {"undated", "absent"})
           => (last.value = FALSE /\ last.executed)

\* C9 witness: a decorated call found an entry without any valid date,
\* executed the function and stored its result.
C9_Witness ==
    /\ last.op = "wrapper"
    /\ last.use_cache
    /\ last.had = "undated"
    /\ last.executed
    /\ last.stored

\* C10: when save_to_cache(key, entry) has returned and the next call is
\* load_cached_data(key), with the store readable, load returns a value with
\* the same newest date as entry (for entries that are non-empty tables with
\* a valid date).
C10_SavedEntryVisibleAtOnce ==
    [][ (/\ last.op = "save_to_cache"
         /\ ~last.exc
         /\ EntryState(last.arg) = "dated"
         /\ last'.op = "load_cached_data"
         /\ last'.key = last.key
         /\ last'.get = "ok")
        => (/\ last'.ret # None
            /\ MaxCachedDate(last'.ret) = MaxCachedDate(last.arg)) ]_vars

\* C11: with the store readable, load_cached_data(key) returns the stored
\* entry when the key holds a non-empty table, and None when the key was
\* never saved, was cleared, or holds an empty table or a value that is no
\* table.
C11_LoadReturnsStoredTable ==
    (last.op = "load_cached_data" /\ last.get = "ok")
    => /\ ~last.exc
       /\ last.ret = IF cache[last.key].kind = "frame" /\ Len(cache[last.key].index) > 0
                     THEN cache[last.key]
                     ELSE None

\* C11 witness: a load of a key holding a non-empty table returned it.
C11_Witness ==
    /\ last.op = "load_cached_data"
    /\ last.get = "ok"
    /\ last.had \in {"dated", "undated"}
    /\ last.ret = cache[last.key]
    /\ last.ret # None

\* C12: clear_cache_for_key raises nothing, removes the entry of its key
\* (if there is one) and leaves the entry of every other key as it was; a
\* load of that key that follows it, with the store readable, returns None.
C12_ClearRemovesOnlyThatKey ==
    [][ /\ last'.op = "clear_cache_for_key"
           => /\ ~last'.exc
              /\ cache'[last'.key] = None
              /\ \A k \in Keys \ {last'.key} : cache'[k] = cache[k]
        /\ (/\ last.op = "clear_cache_for_key"
            /\ last'.op = "load_cached_data"
            /\ last'.key = last.key
            /\ last'.get = "ok")
           => (~last'.exc /\ last'.ret = None) ]_vars

\* C12 witness: a key without entry was cleared while the other key holds
\* an entry.
C12_Witness ==
    /\ last.op = "clear_cache_for_key"
    /\ last.had = "absent"
    /\ \E k \in Keys \ {last.key} : cache[k] # None

\* C13: when two callers run wrapper concurrently on one key, every load
\* (store readable) returns None or the whole value of one of the saves, and
\* once the saves of both callers have returned, a load returns the value of
\* the save that returned last.
C13_LastSaveWins ==
    (last.op = "load_cached_data" /\ last.get = "ok")
    => /\ \/ last.ret = None
          \/ \E i \in DOMAIN saves : last.ret = saves[i].data
       /\ (\A t \in Threads : \E i \in DOMAIN saves : saves[i].by = t)
              => last.ret = saves[Len(saves)].data

\* C14: when a decorated call replaces a stored entry that has dates by
\* freshly fetched data, a copy of the replaced entry is in the archive.
C14_ArchivedBeforeOverwrite ==
    [][ (/\ last'.op = "wrapper"
         /\ last'.stored
         /\ last'.had = "dated"
         /\ cache'[last'.key] # cache[last'.key])
        => \E n \in DOMAIN archive' :
               archive'[n].content = to_csv(cache[last'.key]) ]_vars

\* The number a sequence of digit characters stands for.
IsDigits(chars) ==
    \A i \in DOMAIN chars : \E d \in DOMAIN DigitChars : chars[i] = DigitChars[d]

DigitValue(c) == (CHOOSE d \in DOMAIN DigitChars : DigitChars[d] = c) - 1

RECURSIVE NumberOf(_)
NumberOf(chars) ==
    IF chars = << >> THEN 0
    ELSE 10 * NumberOf(SubSeq(chars, 1, Len(chars) - 1)) + DigitValue(chars[Len(chars)])

\* name reads {key}_{YYYYMMDD_HHMMSS}.csv with the date and time of instant at.
NameMatches(name, key, at) ==
    LET k  == Len(key)
        st == SubSeq(name, k + 2, k + 16)
        c  == CivilFromDays(DayOf(at))
    IN  /\ Len(name) = k + 20
        /\ SubSeq(name, 1, k) = key
        /\ name[k + 1] = "_"
        /\ st[9] = "_"
        /\ IsDigits(SubSeq(st, 1, 8)) /\ IsDigits(SubSeq(st, 10, 15))
        /\ NumberOf(SubSeq(st, 1, 4)) = c.year
        /\ NumberOf(SubSeq(st, 5, 6)) = c.month
        /\ NumberOf(SubSeq(st, 7, 8)) = c.day
        /\ NumberOf(SubSeq(st, 10, 11)) * 3600 + NumberOf(SubSeq(st, 12, 13)) * 60
               + NumberOf(SubSeq(st, 14, 15)) = SecondOfDay(at)
        /\ SubSeq(name, k + 17, k + 20) = << ".", "c", "s", "v" >>

\* C15: every archive file is named {key}_{YYYYMMDD_HHMMSS}.csv after the
\* key and the second of the call that wrote it; no file disappears, and a
\* call changes an existing file only if it has the same key and the same
\* second as the call that wrote that file, and then no other file.
C15_ArchiveNamesNeverCollide ==
    [][ /\ \A n \in DOMAIN archive' : NameMatches(n, archive'[n].key, archive'[n].at)
        /\ DOMAIN archive \subseteq DOMAIN archive'
        /\ \A n \in DOMAIN archive :
               archive'[n] # archive[n]
               => (archive'[n].key = archive[n].key /\ archive'[n].at = archive[n].at)
        /\ Cardinality({ n \in DOMAIN archive : archive'[n] # archive[n] }) <= 1 ]_vars

\* C15 witness: two keys, one looking like an archive name of the other,
\* were archived in the same second into two files, one of them twice.
C15_Witness ==
    \E n1, n2 \in DOMAIN archive :
        /\ n1 # n2
        /\ archive[n1].at = archive[n2].at
        /\ archive[n1].key # archive[n2].key
        /\ archive[n1].replaced

\* C16: load_cached_data never raises; when the read of the store fails it
\* returns None.
C16_LoadIsTotal ==
    last.op = "load_cached_data"
    => /\ ~last.exc
       /\ last.get # "ok" => last.ret = None

\* C17: a save_to_cache that did not store the entry ends in an error; it
\* never returns as if it had succeeded.
C17_FailedSaveReported ==
    (last.op = "save_to_cache" /\ ~last.stored) => last.exc

\* C18: with caching enabled, a decorated call that returns and that found
\* the entry of its key up to date returns that stored entry and has not
\* executed the function; one that found no up-to-date entry has executed
\* the function, returns its result, and a result other than None is then
\* the entry stored under the key.
C18_HitOrFetchOnce ==
    (last.op = "wrapper" /\ last.use_cache /\ ~last.exc)
    => /\ last.value
          => (~last.executed /\ last.ret = cache[last.key])
       /\ ~last.value
          => /\ last.executed
             /\ last.ret = last.arg
             /\ last.arg # None => cache[last.key] = last.arg

\* The Friday before day d.
PrecedingFriday(d) == CHOOSE f \in (d - 7) .. (d - 1) : DayWeekday(f) = 4

\* C19: the date get_latest_trading_day returns is never a Saturday or a
\* Sunday, and when asOf is a Saturday or Sunday it is on or before the
\* Friday that precedes asOf.
C19_WeekendRollsBack ==
    last.op = "get_latest_trading_day"
    => /\ DayWeekday(DayOf(last.trading_day)) < 5
       /\ Weekday(today) >= 5
              => DayOf(last.trading_day) <= PrecedingFriday(DayOf(today))

\* C19 witness: asked on a Sunday at a time of day other than midnight, the
\* answer is the Friday before.
C19_Witness ==
    /\ last.op = "get_latest_trading_day"
    /\ Weekday(today) = 6
    /\ ~IsMidnight(today)
    /\ DayOf(last.trading_day) = DayOf(today) - 2

\* The dates of the holiday set the call queried: the rules of the market
\* over the year up to the start candidate.
HolidayDatesInRange(market, asOf) ==
    LET start == IF Weekday(asOf) < 5 THEN asOf
                 ELSE MinusDays(asOf, Weekday(asOf) - 4)
    IN  { DayOf(h) : h \in Holidays(market_holiday_calendars(market),
                                    MinusOneYear(start), start) }

\* C20: for every market and every asOf instant, midnight or not, the date
\* get_latest_trading_day returns is not in the market's holiday set for
\* the queried range.
C20_NeverAHoliday ==
    last.op = "get_latest_trading_day"
    => DayOf(last.trading_day) \notin HolidayDatesInRange(last.market, today)

\* The entry of the scenario: "AAPL_TIME_SERIES_DAILY" holds a table whose
\* newest date is Wednesday 2024-07-03, and is_data_up_to_date has just been
\* called for it on Friday 2024-07-05.
July3EntryCheckedOnJuly5 ==
    /\ last.op = "is_data_up_to_date"
    /\ last.key = "AAPL_TIME_SERIES_DAILY"
    /\ last.had = "dated"
    /\ DayOf(MaxCachedDate(cache[last.key]).at) = DaysFromCivil(2024, 7, 3)
    /\ DayOf(today) = DaysFromCivil(2024, 7, 5)

\* C21 as stated: with the US calendar, the entry under
\* "AAPL_TIME_SERIES_DAILY" whose newest date is 2024-07-03 is reported up to
\* date when the check runs on 2024-07-05 (store and calendar working).
C21_July3FreshOnJuly5 ==
    (July3EntryCheckedOnJuly5 /\ last.get = "ok" /\ ~last.cal_fails)
    => last.value

\* C21 amended: that entry is reported not up to date on 2024-07-05, at any
\* time of day and whatever the store does: 2024-07-05 is a Friday that no
\* US rule marks (Independence Day 2024 is Thursday 2024-07-04 and is not
\* moved), so the latest trading day is 2024-07-05 itself.
C21_July3StaleOnJuly5 ==
    July3EntryCheckedOnJuly5
    => /\ ~last.value
       /\ ~last.exc
       /\ DayOf(LatestTradingDayAt(today)) = DaysFromCivil(2024, 7, 5)

\* C21 witness: the check of the scenario has run at midnight of 2024-07-05
\* with store and calendar working, and has answered false.
C21_Witness ==
    /\ July3EntryCheckedOnJuly5
    /\ IsMidnight(today)
    /\ last.get = "ok"
    /\ ~last.cal_fails
    /\ ~last.value


\* What the loop of lines 118-119 gives at instant asOf when the holidays
\* are those of the rule set rules.
LatestByRules(rules, asOf) ==
    LET start == IF Weekday(asOf) < 5 THEN asOf
                 ELSE MinusDays(asOf, Weekday(asOf) - 4)
    IN  RollBack(start, Holidays(rules, MinusOneYear(start), start))

\* C22: for every market identifier that is not a key of the calendar
\* table, get_latest_trading_day returns what it returns for "US" at the
\* same instant; for "US", "Japan" and "UK" it returns what the rules of
\* that market's own calendar give.
C22_UnknownMarketFallsBackToUS ==
    last.op = "get_latest_trading_day"
    => /\ last.market \notin RegisteredMarkets
              => last.trading_day = get_latest_trading_day("US", today)
       /\ last.market = "US"
              => last.trading_day = LatestByRules(USMarketHolidayCalendar, today)
       /\ last.market = "Japan"
              => last.trading_day = LatestByRules(JapanMarketHolidayCalendar, today)
       /\ last.market = "UK"
              => last.trading_day = LatestByRules(UKMarketHolidayCalendar, today)

\* C22 witness: asked at midnight of Christmas Day 2023 for a market that is
\* not in the table, the call steps back over the US holiday to Friday
\* 2023-12-22, which the rules of Japan would not have made it do.
C22_Witness ==
    /\ last.op = "get_latest_trading_day"
    /\ last.market \notin RegisteredMarkets
    /\ today = Midnight(DaysFromCivil(2023, 12, 25))
    /\ DayOf(last.trading_day) = DaysFromCivil(2023, 12, 22)
    /\ LatestByRules(JapanMarketHolidayCalendar, today) = today


\* The n-th day of weekday k (Monday 0) of month m of year y.
NthWeekdayOfMonth(y, m, k, n) ==
    CHOOSE d \in DaysFromCivil(y, m, 1) .. (DaysFromCivil(y, m, 1) + 34) :
        /\ DayWeekday(d) = k
        /\ (d - DaysFromCivil(y, m, 1)) \div 7 = n - 1

\* C23: for every year, the "Thanksgiving" rule of the US rule set resolves
\* to the fourth Thursday of November of that year, a date from 22 to 28
\* November, and that is the date the rule contributes to the year.
C23_ThanksgivingFourthThursday ==
    (last.op = "resolve" /\ last.market = "US" /\ last.rule = "Thanksgiving")
    => /\ last.resolved = NthWeekdayOfMonth(last.year, 11, 3, 4)
       /\ last.resolved \in DaysFromCivil(last.year, 11, 22) .. DaysFromCivil(last.year, 11, 28)
       /\ last.in_year = {last.resolved}


\* The "Thanksgiving" rule of the US rule set.
ThanksgivingRule == CHOOSE r \in USMarketHolidayCalendar : r.name = "Thanksgiving"

\* C24: for every year, the "Day after Thanksgiving" rule of the US rule set
\* resolves to the day after the date the rule set resolves for Thanksgiving
\* in that year, the Friday that follows it, also when 1 November is a
\* Friday.
C24_DayAfterFollowsThanksgiving ==
    (last.op = "resolve" /\ last.market = "US" /\ last.rule = "Day after Thanksgiving")
    => /\ last.resolved = RuleDate(ThanksgivingRule, last.year) + 1
       /\ DayWeekday(last.resolved) = 4
       /\ last.in_year = {last.resolved}


\* C25: for every year Y, the "Good Friday" rule of the US and of the UK rule
\* set resolves to the date two days before Easter Sunday of year Y, a
\* Friday of year Y, and that is the date the rule contributes to the year.
C25_GoodFridayTwoDaysBeforeEaster ==
    (last.op = "resolve" /\ last.market \in {"US", "UK"} /\ last.rule = "Good Friday")
    => /\ last.resolved = EasterSunday(last.year) - 2
       /\ DayWeekday(last.resolved) = 4
       /\ CivilFromDays(last.resolved).year = last.year
       /\ last.in_year = {last.resolved}


\* The days the rules of a market mark as holidays, over the years around
\* the days get_latest_trading_day is asked about.
MarketHolidayDays(market) ==
    { RuleDate(r, y) : r \in market_holiday_calendars(market),
                       y \in (CivilFromDays(CalFirstDay).year - 1)
                                 .. (CivilFromDays(CalFirstDay + CalDays).year + 1) }

\* The most recent trading day of a market as of day d: the greatest day up
\* to d that is neither a Saturday or Sunday nor a holiday of the market.
RECURSIVE MostRecentTradingDay(_, _)
MostRecentTradingDay(market, d) ==
    IF DayWeekday(d) >= 5 \/ d \in MarketHolidayDays(market)
    THEN MostRecentTradingDay(market, d - 1)
    ELSE d

\* C26: for every asOf, get_latest_trading_day returns the most recent
\* trading day: the greatest date d <= asOf, compared as calendar dates,
\* that is neither a weekend day nor in the market's holiday set.
C26_MostRecentTradingDay ==
    last.op = "get_latest_trading_day"
    => DayOf(last.trading_day) = MostRecentTradingDay(last.market, DayOf(today))


\* ------------------------------------------------ rate limiter, continued
\* The recorded timestamps whose age at instant T is less than / at most the
\* interval, among the first n recorded ones.
YoungerThanInterval(h, n, T) == { i \in 1 .. n : T - h[i] < interval }
NotOlderThanInterval(h, n, T) == { i \in 1 .. n : T - h[i] <= interval }

\* C27: pruning keeps exactly the timestamps t with now - t < 60s: after
\* every pruning by the single caller the list is the run of the recorded
\* timestamps younger than 60 seconds as of the call's `now`, one exactly 60
\* seconds old is gone, and a call admitted without a wait found fewer than
\* max timestamps younger than 60 seconds (each of those is counted).
C27_PruneKeepsYoungerThanInterval ==
    (decorated /\ call[1].n > 0)
    => /\ Len(call_timestamps)
              = Cardinality(YoungerThanInterval(history, Len(history), now[1]))
       /\ \A j \in DOMAIN call_timestamps :
              /\ now[1] - call_timestamps[j] < interval
              /\ call_timestamps[j]
                     = history[Len(history) - Len(call_timestamps) + j]
       /\ (call[1].outcome = "returned" /\ call[1].waited = 0)
              => Cardinality(YoungerThanInterval(history, call[1].pre_history,
                                                 call[1].issued_at))
                     < max_requests_per_minute

\* C27 witness: a call was admitted without a wait although, counting the
\* timestamp that was exactly 60 seconds old when it was issued, the list
\* would have been full; that timestamp is no longer in the list.
C27_Witness ==
    /\ call[1].outcome = "returned"
    /\ call[1].waited = 0
    /\ \E i \in 1 .. call[1].pre_history :
           call[1].issued_at - history[i] = interval
    /\ Cardinality(NotOlderThanInterval(history, call[1].pre_history,
                                        call[1].issued_at))
           >= max_requests_per_minute
    /\ \A j \in DOMAIN call_timestamps : now[1] - call_timestamps[j] < interval


\* The number of timestamps the pruning of line 25 left for the caller's
\* current call: those recorded before it and younger than 60 seconds when
\* it was issued.
PrunedCountAtCall ==
    Cardinality(YoungerThanInterval(history, call[1].pre_history, call[1].issued_at))

\* C28: a call through the limiter suspends if and only if the pruned
\* timestamp count is >= max at the time of the call; when the count is
\* < max the call records its `now` and invokes func without any wait; and
\* a call that returns has recorded exactly one timestamp, the one func was
\* invoked after.
C28_SuspendsIffFull ==
    (decorated /\ call[1].n > 0)
    => /\ call[1].waited >= 1 <=> PrunedCountAtCall >= max_requests_per_minute
       /\ PrunedCountAtCall < max_requests_per_minute
              => /\ call[1].outcome = "returned"
                 /\ now[1] = call[1].issued_at
                 /\ history[call[1].pre_history + 1] = call[1].issued_at
       /\ call[1].outcome = "returned"
              => /\ call[1].recorded = 1
                 /\ call[1].invoked = 1
                 /\ Len(history) = call[1].pre_history + 1
                 /\ func_calls = call[1].pre_func + 1
                 /\ history[Len(history)] = now[1]


\* C29: after every completed call through a limiter with max >= 1 used by
\* a single caller, the timestamp list is in non-decreasing time order (its
\* first element is the oldest), holds only timestamps younger than 60
\* seconds as of the last recording, and has at most max elements.
C29_ListOrderedFreshBounded ==
    (max_requests_per_minute >= 1 /\ call[1].outcome = "returned")
    => /\ \A i, j \in DOMAIN call_timestamps :
              i <= j => call_timestamps[i] <= call_timestamps[j]
       /\ \A j \in DOMAIN call_timestamps :
              /\ call_timestamps[j] <= call_timestamps[Len(call_timestamps)]
              /\ call_timestamps[Len(call_timestamps)] - call_timestamps[j] < interval
       /\ call_timestamps[Len(call_timestamps)] = now[1]
       /\ Len(call_timestamps) <= max_requests_per_minute

\* C29 witness: a call that had to wait has completed with max = 2; the list
\* is full, its two timestamps differ, and an older one has been pruned.
C29_Witness ==
    /\ max_requests_per_minute = 2
    /\ call[1].outcome = "returned"
    /\ call[1].waited = 1
    /\ Len(call_timestamps) = 2
    /\ call_timestamps[1] < call_timestamps[2]
    /\ Len(history) > Len(call_timestamps)


\* The record of a call of the cache wrapper that was answered from the
\* cache: the verdict was "up to date", the entry was loaded and handed
\* out, and func was not called.
AnsweredFromCache(r) ==
    /\ r.op = "wrapper"
    /\ r.use_cache
    /\ r.value
    /\ ~r.executed
    /\ ~r.exc
    /\ r.ret # None

\* C30: with cache_decorator around a rate-limited fetch, a call answered
\* from the cache leaves the limiter's timestamp list as it was and causes
\* no wait, and a timestamp is recorded only by a call that reaches the
\* fetch function (one timestamp, one run of the fetch).
C30_HitLeavesLimiterAlone ==
    [][ /\ AnsweredFromCache(last')
            => /\ call_timestamps' = call_timestamps
               /\ history' = history
               /\ func_calls' = func_calls
               /\ pc' = pc
               /\ call' = call
        /\ history' # history
            => /\ Len(history') = Len(history) + 1
               /\ func_calls' = func_calls + 1
               /\ last'.op = "wrapper"
               /\ last'.executed ]_vars

\* C30 witness: with max = 1 and the one timestamp of an earlier fetch still
\* in the list, a call has been answered from the cache: the caller is not
\* sleeping and the fetch has run once.
C30_Witness ==
    /\ AnsweredFromCache(last)
    /\ max_requests_per_minute = 1
    /\ Len(call_timestamps) = 1
    /\ clock - call_timestamps[1] < interval
    /\ history = call_timestamps
    /\ func_calls = 1
    /\ pc[1] = "idle"


\* How often the value v occurs in the sequence s.
Occurrences(s, v) == Cardinality({ i \in DOMAIN s : s[i] = v })

\* C31: under every interleaving of concurrent calls through one limiter, no
\* recorded timestamp is lost: every timestamp appended by an admitted call
\* is in the shared list, as often as it was appended, for as long as it is
\* younger than 60 seconds; no caller's rebinding of the list to its own
\* pruned copy drops it.
C31_NoTimestampLost ==
    \A i \in DOMAIN history :
        clock - history[i] < interval
        => Occurrences(call_timestamps, history[i]) >= Occurrences(history, history[i])

====
